---- MODULE Spec2Model ----
(***************************************************************************)
(* A model of easage, a codec for BIG archives: the reader (archive.rs)    *)
(* and the packer (packer.rs).  A byte is a number in 0..255, a buffer a   *)
(* sequence of bytes, a name the sequence of the UTF-8 bytes of a string.  *)
(* Offsets into buffers are 0-based as in the source; Slice converts.      *)
(***************************************************************************)
EXTENDS Integers, Sequences, FiniteSets, TLC

VARIABLES
    op,        \* the last call made
    arg,       \* its argument: a buffer or a name
    entries,   \* the entry list handed to pack
    kind,      \* the Kind handed to pack
    tree,      \* the items WalkDir yields to pack_directory
    settings,  \* the Settings handed to pack_directory
    archive,   \* the Archive in hand, if any
    table,     \* the EntryInfoTable in hand, if any
    output,    \* the file writer::pack_directory wrote, if any
    result     \* what the last call returned

vars == <<op, arg, entries, kind, tree, settings, archive, table, output, result>>

(***************************************************************************)
(* Bounds of the model.                                                    *)
(***************************************************************************)
\* the longest entry list handed to pack
MaxEntries == 3
\* the longest raw buffer drawn over MagicAlphabet
MaxRawLen == 4
\* the most items a directory walk yields
MaxTree == 3

(***************************************************************************)
(* Result values: Ok(v) and Err(e) of Result, Some(v) and None of Option,  *)
(* and Panic for a call that unwinds instead of returning.                 *)
(***************************************************************************)
Ok(v) == [tag |-> "Ok", val |-> v]

Err(e) == [tag |-> "Err", val |-> e]

Some(v) == [tag |-> "Some", val |-> v]

None == [tag |-> "None", val |-> <<>>]

Panic == [tag |-> "Panic", val |-> <<>>]

AttemptCreateEmpty == [kind |-> "AttemptCreateEmpty", magic |-> <<>>]

InvalidMagic(bytes) == [kind |-> "InvalidMagic", magic |-> bytes]

IOError == [kind |-> "IO", magic |-> <<>>]

PathNotFound == [kind |-> "PathNotFound", magic |-> <<>>]

Custom == [kind |-> "Custom", magic |-> <<>>]

(***************************************************************************)
(* Integer widths and byte order.  TLC's integers end at 2^31-1, so a u32  *)
(* is held as its two 16-bit halves, [hi, lo], of value hi * 2^16 + lo.    *)
(* A usize (64 bits) is a plain number: no length in the model nears 2^31. *)
(***************************************************************************)
\* `x as u32` of a usize x: x modulo 2^32
AsU32(x) == [hi |-> (x \div 65536) % 65536, lo |-> x % 65536]

\* whether the u32 is below 2^31, the numbers TLC can hold
Small(u) == u.hi < 32768

\* `u as usize` of a u32 below 2^31
AsUsize(u) == u.hi * 65536 + u.lo

\* write_u32::<BigEndian>
WriteU32BE(u) == << u.hi \div 256, u.hi % 256, u.lo \div 256, u.lo % 256 >>

\* write_u32::<LittleEndian>
WriteU32LE(u) == << u.lo % 256, u.lo \div 256, u.hi % 256, u.hi \div 256 >>

\* read_u32::<BigEndian> of a 4-byte slice
ReadU32BE(b) == [hi |-> b[1] * 256 + b[2], lo |-> b[3] * 256 + b[4]]

\* read_u32::<LittleEndian> of a 4-byte slice
ReadU32LE(b) == [hi |-> b[4] * 256 + b[3], lo |-> b[2] * 256 + b[1]]

\* &self[start..end]: the bytes at the 0-based positions start..end-1
Slice(b, start, end) == SubSeq(b, start + 1, end)

\* whether &self[start..end] is inside the buffer (it panics otherwise)
SliceOk(b, start, end) == start <= end /\ end <= Len(b)

\* the same for start = `offset as usize` and end = start + `len as usize`
RangeOk(b, offset, len) ==
    /\ Small(offset) /\ AsUsize(offset) <= Len(b)
    /\ Small(len) /\ AsUsize(len) <= Len(b) - AsUsize(offset)

(***************************************************************************)
(* archive.rs: Kind and the readers of Archive.  An Archive is modelled by *)
(* its field: [data |-> the bytes it maps].                                *)
(***************************************************************************)
Kinds == {"Big4", "BigF"}

\* b"BIG4"
MagicBig4 == <<66, 73, 71, 52>>

\* b"BIGF"
MagicBigF == <<66, 73, 71, 70>>

HEADER_LEN == 16

\* a variant: the magic is matched as a prefix of the bytes
try_from_bytes_prefix(bytes) ==
    IF Len(bytes) >= 4 /\ SubSeq(bytes, 1, 4) = MagicBig4 THEN Ok("Big4")
    ELSE IF Len(bytes) >= 4 /\ SubSeq(bytes, 1, 4) = MagicBigF THEN Ok("BigF")
    ELSE Err(InvalidMagic(bytes))

try_from_bytes(bytes) ==
    IF bytes = MagicBig4 THEN Ok("Big4")
    ELSE IF bytes = MagicBigF THEN Ok("BigF")
    ELSE Err(InvalidMagic(bytes))

\* a variant: construction validates the magic
from_bytes_validating(bytes) ==
    IF Len(bytes) = 0 THEN Err(AttemptCreateEmpty)
    ELSE IF Len(bytes) < 4 \/ SubSeq(bytes, 1, 4) \notin {MagicBig4, MagicBigF}
         THEN Err(InvalidMagic(bytes))
    ELSE Ok([data |-> bytes])

from_bytes(bytes) ==
    IF Len(bytes) = 0 THEN Err(AttemptCreateEmpty)
    ELSE Ok([data |-> bytes])

read_kind(self) ==
    IF ~SliceOk(self.data, 0, 4) THEN Panic
    ELSE try_from_bytes(Slice(self.data, 0, 4))

\* a variant: the size is read big-endian
read_size_big_endian(self) ==
    IF ~SliceOk(self.data, 4, 8) THEN Panic
    ELSE Ok(ReadU32BE(Slice(self.data, 4, 8)))

read_size(self) ==
    IF ~SliceOk(self.data, 4, 8) THEN Panic
    ELSE Ok(ReadU32LE(Slice(self.data, 4, 8)))

read_len(self) ==
    IF ~SliceOk(self.data, 8, 12) THEN Panic
    ELSE Ok(ReadU32BE(Slice(self.data, 8, 12)))

read_data_start(self) ==
    IF ~SliceOk(self.data, 12, 16) THEN Panic
    ELSE Ok(ReadU32BE(Slice(self.data, 12, 16)))

(***************************************************************************)
(* String::from_utf8_lossy: a well-formed UTF-8 sequence is kept, and each *)
(* maximal ill-formed prefix is replaced by U+FFFD (EF BF BD).             *)
(***************************************************************************)
REPLACEMENT == <<239, 191, 189>>

\* the byte at the 0-based position i, or 0 past the end (safe_get)
SafeGet(b, i) == IF i < Len(b) THEN b[i + 1] ELSE 0

IsCont(x) == x >= 128 /\ x <= 191

\* [ok, n]: whether a well-formed sequence starts at position i, and the
\* number of bytes it (or the ill-formed prefix) takes
Utf8Step(b, i) ==
    LET b0 == b[i + 1]
        b1 == SafeGet(b, i + 1)
        b2 == SafeGet(b, i + 2)
        b3 == SafeGet(b, i + 3)
        second3 == \/ b0 = 224 /\ b1 >= 160 /\ b1 <= 191
                   \/ b0 >= 225 /\ b0 <= 236 /\ IsCont(b1)
                   \/ b0 = 237 /\ b1 >= 128 /\ b1 <= 159
                   \/ b0 >= 238 /\ b0 <= 239 /\ IsCont(b1)
        second4 == \/ b0 = 240 /\ b1 >= 144 /\ b1 <= 191
                   \/ b0 >= 241 /\ b0 <= 243 /\ IsCont(b1)
                   \/ b0 = 244 /\ b1 >= 128 /\ b1 <= 143
    IN  IF b0 < 128 THEN [ok |-> TRUE, n |-> 1]
        ELSE IF b0 >= 194 /\ b0 <= 223
             THEN IF IsCont(b1) THEN [ok |-> TRUE, n |-> 2] ELSE [ok |-> FALSE, n |-> 1]
        ELSE IF b0 >= 224 /\ b0 <= 239
             THEN IF ~second3 THEN [ok |-> FALSE, n |-> 1]
                  ELSE IF ~IsCont(b2) THEN [ok |-> FALSE, n |-> 2]
                  ELSE [ok |-> TRUE, n |-> 3]
        ELSE IF b0 >= 240 /\ b0 <= 244
             THEN IF ~second4 THEN [ok |-> FALSE, n |-> 1]
                  ELSE IF ~IsCont(b2) THEN [ok |-> FALSE, n |-> 2]
                  ELSE IF ~IsCont(b3) THEN [ok |-> FALSE, n |-> 3]
                  ELSE [ok |-> TRUE, n |-> 4]
        ELSE [ok |-> FALSE, n |-> 1]

RECURSIVE LossyFrom(_, _)
LossyFrom(b, i) ==
    IF i >= Len(b) THEN <<>>
    ELSE LET s == Utf8Step(b, i)
         IN  (IF s.ok THEN Slice(b, i, i + s.n) ELSE REPLACEMENT) \o LossyFrom(b, i + s.n)

from_utf8_lossy(b) == LossyFrom(b, 0)

(***************************************************************************)
(* read_entry_metadata_table.  The cursor c is a 0-based position in the   *)
(* buffer; a table is a function from names to EntryInfo records.          *)
(***************************************************************************)
EmptyTable == [n \in {} |-> 0]

\* a variant: an earlier record of the same name is kept
InsertKeepingFirst(t, name, info) ==
    [n \in DOMAIN t \cup {name} |-> IF n \in DOMAIN t THEN t[n] ELSE info]

\* HashMap::insert: a later record replaces an earlier one of the same name
Insert(t, name, info) == [n \in DOMAIN t \cup {name} |-> IF n = name THEN info ELSE t[n]]

\* BufRead::read_until(b'\0') from position c: the number of bytes read, the
\* delimiter included when there is one before the end of the buffer
RECURSIVE ReadUntilNul(_, _)
ReadUntilNul(b, c) ==
    IF c >= Len(b) THEN 0
    ELSE IF b[c + 1] = 0 THEN 1
    ELSE 1 + ReadUntilNul(b, c + 1)

\* a variant: the terminating NUL is kept in the name
RECURSIVE ReadRecordsKeepNul(_, _, _, _, _)
ReadRecordsKeepNul(b, c, i, n, t) ==
    IF n = AsU32(i) THEN Ok(t)
    ELSE IF c + 4 > Len(b) THEN Err(IOError)
    ELSE IF c + 8 > Len(b) THEN Err(IOError)
    ELSE LET offset == ReadU32BE(Slice(b, c, c + 4))
             len == ReadU32BE(Slice(b, c + 4, c + 8))
             name_len == ReadUntilNul(b, c + 8)
         IN  IF name_len = 0 THEN Panic
             ELSE LET name == from_utf8_lossy(Slice(b, c + 8, c + 8 + name_len))
                  IN  ReadRecordsKeepNul(b, c + 8 + name_len, i + 1, n,
                          Insert(t, name, [offset |-> offset, len |-> len, name |-> name]))

\* the loop `for _ in 0..len` from its i-th iteration on, the cursor at c
RECURSIVE ReadRecords(_, _, _, _, _)
ReadRecords(b, c, i, n, t) ==
    IF n = AsU32(i) THEN Ok(t)
    ELSE IF c + 4 > Len(b) THEN Err(IOError)
    ELSE IF c + 8 > Len(b) THEN Err(IOError)
    ELSE LET offset == ReadU32BE(Slice(b, c, c + 4))
             len == ReadU32BE(Slice(b, c + 4, c + 8))
             name_len == ReadUntilNul(b, c + 8)
         IN  IF name_len = 0 THEN Panic
             ELSE LET name == from_utf8_lossy(Slice(b, c + 8, c + 8 + name_len - 1))
                  IN  ReadRecords(b, c + 8 + name_len, i + 1, n,
                          Insert(t, name, [offset |-> offset, len |-> len, name |-> name]))

read_entry_metadata_table(self) ==
    LET len == read_len(self)
    IN  IF len.tag # "Ok" THEN len
        ELSE ReadRecords(self.data, HEADER_LEN, 0, len.val, EmptyTable)

\* a variant: the terminating NUL of a name is not counted
RECURSIVE TableSizeNoNul(_)
TableSizeNoNul(t) ==
    IF DOMAIN t = {} THEN 0
    ELSE LET k == CHOOSE n \in DOMAIN t : TRUE
         IN  (4 + 4 + Len(t[k].name)) + TableSizeNoNul([n \in DOMAIN t \ {k} |-> t[n]])

\* the sum over the table's records of (offset + length + name + null); the
\* source sums in u32, which no table of the model comes near to overflowing
RECURSIVE TableSize(_)
TableSize(t) ==
    IF DOMAIN t = {} THEN 0
    ELSE LET k == CHOOSE n \in DOMAIN t : TRUE
         IN  (4 + 4 + Len(t[k].name) + 1) + TableSize([n \in DOMAIN t \ {k} |-> t[n]])

read_secret_data(self, t) ==
    LET ds == read_data_start(self)
        secret_data_offset == HEADER_LEN + TableSize(t)
    IN  IF ds.tag # "Ok" THEN ds
        ELSE IF Small(ds.val) /\ secret_data_offset = AsUsize(ds.val) THEN Ok(None)
        ELSE IF ~Small(ds.val) \/ ~SliceOk(self.data, secret_data_offset, AsUsize(ds.val))
             THEN Panic
        ELSE Ok(Some(Slice(self.data, secret_data_offset, AsUsize(ds.val))))

\* a variant: the slice ends at the length instead of offset + length
get_bytes_via_table_len_as_end(self, t, name) ==
    IF name \in DOMAIN t
    THEN IF ~(/\ Small(t[name].offset) /\ Small(t[name].len)
              /\ SliceOk(self.data, AsUsize(t[name].offset), AsUsize(t[name].len)))
         THEN Panic
         ELSE Some(Slice(self.data, AsUsize(t[name].offset), AsUsize(t[name].len)))
    ELSE None

\* a variant: a name of the table yields the bytes of the whole buffer
get_bytes_via_table_whole_buffer(self, t, name) ==
    IF name \in DOMAIN t
    THEN IF ~RangeOk(self.data, t[name].offset, t[name].len) THEN Panic
         ELSE Some(self.data)
    ELSE None

\* a variant: an absent name is an error, as tests::pack_2_entries expects
get_bytes_via_table_no_such_entry(self, t, name) ==
    IF name \in DOMAIN t
    THEN IF ~RangeOk(self.data, t[name].offset, t[name].len) THEN Panic
         ELSE Some(Slice(self.data, AsUsize(t[name].offset),
                         AsUsize(t[name].offset) + AsUsize(t[name].len)))
    ELSE Err([kind |-> "NoSuchEntry", magic |-> <<>>])

get_bytes_via_table(self, t, name) ==
    IF name \in DOMAIN t
    THEN IF ~RangeOk(self.data, t[name].offset, t[name].len) THEN Panic
         ELSE LET start == AsUsize(t[name].offset)
                  end == AsUsize(t[name].offset) + AsUsize(t[name].len)
              IN  Some(Slice(self.data, start, end))
    ELSE None

(***************************************************************************)
(* packer.rs: pack.  An entry is [name |-> bytes, data |-> bytes].         *)
(***************************************************************************)
RECURSIVE Concat(_)
Concat(ss) == IF ss = <<>> THEN <<>> ELSE Head(ss) \o Concat(Tail(ss))

RECURSIVE SumSeq(_)
SumSeq(ns) == IF ns = <<>> THEN 0 ELSE Head(ns) + SumSeq(Tail(ns))

\* a variant: the terminating NUL is not counted
RecordSizeNoNul(e) == 4 + 4 + Len(e.name)

\* size_of::<u32>() (offset) + size_of::<u32>() (length) + name + null
RecordSize(e) == 4 + 4 + Len(e.name) + 1

PackTableSize(es) == SumSeq([i \in 1..Len(es) |-> RecordSize(es[i])])

\* a variant: data_start leaves room for one byte after the table
PackDataStartPadded(es) == HEADER_LEN + PackTableSize(es) + 1

PackDataStart(es) == HEADER_LEN + PackTableSize(es)

\* a variant: the payloads are not counted
PackTotalSizeNoData(es) == PackDataStart(es)

PackTotalSize(es) == PackDataStart(es) + SumSeq([i \in 1..Len(es) |-> Len(es[i].data)])

KindBytes(k) == IF k = "Big4" THEN MagicBig4 ELSE MagicBigF

\* a variant: the entry count is written little-endian
PackHeaderCountLE(es, k) ==
    KindBytes(k) \o WriteU32LE(AsU32(PackTotalSize(es)))
                 \o WriteU32LE(AsU32(Len(es)))
                 \o WriteU32BE(AsU32(PackDataStart(es)))

\* "Write the header"
PackHeader(es, k) ==
    KindBytes(k) \o WriteU32LE(AsU32(PackTotalSize(es)))
                 \o WriteU32BE(AsU32(Len(es)))
                 \o WriteU32BE(AsU32(PackDataStart(es)))

\* a variant: last_offset is not updated in the loop
RECURSIVE PackRecordsStale(_, _, _, _)
PackRecordsStale(es, i, last_offset, last_len) ==
    IF i > Len(es) THEN <<>>
    ELSE LET len == Len(es[i].data)
             offset == last_offset + last_len
         IN  WriteU32BE(AsU32(offset)) \o WriteU32BE(AsU32(len)) \o es[i].name \o <<0>>
                 \o PackRecordsStale(es, i + 1, last_offset, len)

\* "Write the entry metadata table": the loop over the entries from the i-th on
RECURSIVE PackRecords(_, _, _, _)
PackRecords(es, i, last_offset, last_len) ==
    IF i > Len(es) THEN <<>>
    ELSE LET len == Len(es[i].data)
             offset == last_offset + last_len
         IN  WriteU32BE(AsU32(offset)) \o WriteU32BE(AsU32(len)) \o es[i].name \o <<0>>
                 \o PackRecords(es, i + 1, offset, len)

\* "Write the actual data"
PackData(es) == Concat([i \in 1..Len(es) |-> es[i].data])

\* a variant: the empty entry list is not rejected
pack_unchecked(es, k) ==
    from_bytes(PackHeader(es, k) \o PackRecords(es, 1, PackDataStart(es), 0) \o PackData(es))

pack(es, k) ==
    IF es = <<>> THEN Err(AttemptCreateEmpty)
    ELSE from_bytes(PackHeader(es, k) \o PackRecords(es, 1, PackDataStart(es), 0) \o PackData(es))

(***************************************************************************)
(* bin/easage_unpack.rs: the unpack command.  The output directory is a    *)
(* function from the paths of the files written, relative to it, to their  *)
(* bytes; creating a directory or a file with a non-empty path succeeds.   *)
(***************************************************************************)
\* entry_name.replace("\\", "/")
replace(entry_name) ==
    [i \in 1..Len(entry_name) |-> IF entry_name[i] = 92 THEN 47 ELSE entry_name[i]]

\* the entries of the table that the loop does not `continue` past
NotSkipped(t, should_unpack_all, names) ==
    {entry_name \in DOMAIN t : should_unpack_all \/ entry_name \notin names}

\* what the loop body does with one entry: it panics in
\* get_bytes_via_table, fails to open the output directory itself as a
\* file, or writes the entry's bytes
BodyOutcome(self, t, entry_name) ==
    LET data == get_bytes_via_table(self, t, entry_name)
    IN  IF data.tag = "Panic" THEN Panic
        ELSE IF replace(entry_name) = <<>> THEN Err(IOError)
        ELSE Ok(data.val)

\* the directories that writing the entries of ns, in some order, leaves
FilesWritten(self, t, ns) ==
    LET paths == {replace(n) : n \in ns}
    IN  {[p \in paths |-> BodyOutcome(self, t, last[p]).val] :
             last \in {f \in [paths -> ns] : \A p \in paths : replace(f[p]) = p}}

\* run: the pairs of its result and of the directory it leaves.  The table
\* is iterated in an arbitrary order, so a body that fails may come after
\* any of the bodies that write.
run(self, should_unpack_all, names) ==
    LET table_result == read_entry_metadata_table(self)
        todo == NotSkipped(table_result.val, should_unpack_all, names)
        failing == {n \in todo : BodyOutcome(self, table_result.val, n).tag # "Ok"}
    IN  IF table_result.tag # "Ok" THEN {<<table_result, <<>> >>}
        ELSE IF failing = {}
             THEN {<<Ok(<<>>), files>> : files \in FilesWritten(self, table_result.val, todo)}
        ELSE UNION {{<<BodyOutcome(self, table_result.val, n), files>> :
                         files \in UNION {FilesWritten(self, table_result.val, done) :
                                              done \in SUBSET (todo \ failing)}} :
                       n \in failing}

(***************************************************************************)
(* pack over payloads of any length.  A usize beyond TLC's numbers is held *)
(* as [hi, lo] of value hi * 2^16 + lo with lo < 2^16 and hi of any size;  *)
(* a payload is held by its length, [name |-> bytes, len |-> usize].       *)
(***************************************************************************)
UsizeOf(n) == [hi |-> n \div 65536, lo |-> n % 65536]

UsizeAdd(a, b) ==
    [hi |-> a.hi + b.hi + (a.lo + b.lo) \div 65536, lo |-> (a.lo + b.lo) % 65536]

\* `x as u32` of a usize x: the low 32 bits
UsizeAsU32(x) == [hi |-> x.hi % 65536, lo |-> x.lo]

RECURSIVE UsizeSum(_)
UsizeSum(ns) == IF ns = <<>> THEN UsizeOf(0) ELSE UsizeAdd(Head(ns), UsizeSum(Tail(ns)))

\* "Write the entry metadata table", the offsets and lengths being usize
RECURSIVE PackRecordsOfLengths(_, _, _, _)
PackRecordsOfLengths(es, i, last_offset, last_len) ==
    IF i > Len(es) THEN <<>>
    ELSE LET len == es[i].len
             offset == UsizeAdd(last_offset, last_len)
         IN  WriteU32BE(UsizeAsU32(offset)) \o WriteU32BE(UsizeAsU32(len)) \o es[i].name \o <<0>>
                 \o PackRecordsOfLengths(es, i + 1, offset, len)

\* pack up to "Write the actual data": Ok of the header and the table it
\* writes and of the number of payload bytes that follow them
pack_of_lengths(es, k) ==
    LET data_start == UsizeOf(HEADER_LEN + PackTableSize(es))
        total_size_of_entries == UsizeSum([i \in 1..Len(es) |-> es[i].len])
        total_archive_size == UsizeAdd(data_start, total_size_of_entries)
    IN  IF es = <<>> THEN Err(AttemptCreateEmpty)
        ELSE Ok([table |-> KindBytes(k) \o WriteU32LE(UsizeAsU32(total_archive_size))
                               \o WriteU32BE(AsU32(Len(es)))
                               \o WriteU32BE(UsizeAsU32(data_start))
                               \o PackRecordsOfLengths(es, 1, data_start, UsizeOf(0)),
                 payload |-> total_size_of_entries])

(***************************************************************************)
(* packer.rs: pack_directory.  The walk is the sequence of items WalkDir   *)
(* yields: [kind |-> "dir" | "file" | "err", path, data, readable].        *)
(***************************************************************************)
StartsWith(s, p) == Len(p) <= Len(s) /\ SubSeq(s, 1, Len(p)) = p

\* str::trim_left_matches: removes every leading repetition of the pattern
RECURSIVE trim_left_matches(_, _)
trim_left_matches(name, p) ==
    IF p # <<>> /\ StartsWith(name, p)
    THEN trim_left_matches(SubSeq(name, Len(p) + 1, Len(name)), p)
    ELSE name

\* Ord for String: bytewise lexicographic
RECURSIVE NameLeq(_, _)
NameLeq(a, b) ==
    IF a = <<>> THEN TRUE
    ELSE IF b = <<>> THEN FALSE
    ELSE IF Head(a) # Head(b) THEN Head(a) < Head(b)
    ELSE NameLeq(Tail(a), Tail(b))

\* the comparison of entries.sort_by: a is not after b
EntryLeq(criteria, a, b) ==
    IF criteria = "SmallestToLargest" THEN Len(a.data) <= Len(b.data)
    ELSE NameLeq(a.name, b.name)

\* a variant: an element goes before the elements that compare equal to it
RECURSIVE InsertSortedUnstable(_, _, _)
InsertSortedUnstable(criteria, sorted, e) ==
    IF sorted = <<>> THEN <<e>>
    ELSE IF ~EntryLeq(criteria, e, Head(sorted))
         THEN <<Head(sorted)>> \o InsertSortedUnstable(criteria, Tail(sorted), e)
         ELSE <<e>> \o sorted

\* slice::sort_by is stable: an element goes after every element not after it
RECURSIVE InsertSorted(_, _, _)
InsertSorted(criteria, sorted, e) ==
    IF sorted = <<>> THEN <<e>>
    ELSE IF EntryLeq(criteria, Head(sorted), e)
         THEN <<Head(sorted)>> \o InsertSorted(criteria, Tail(sorted), e)
         ELSE <<e>> \o sorted

\* a variant: the entries stay in the order they were collected in
SortByCollected(criteria, es) == es

RECURSIVE SortBy(_, _)
SortBy(criteria, es) ==
    IF es = <<>> THEN <<>>
    ELSE InsertSorted(criteria, SortBy(criteria, SubSeq(es, 1, Len(es) - 1)), es[Len(es)])

\* the loop `for fs_item in WalkDir::new(directory)`: Ok(entries) or the error
RECURSIVE Collect(_, _, _)
Collect(items, st, acc) ==
    IF items = <<>> THEN Ok(acc)
    ELSE LET item == Head(items)
         IN  IF item.kind = "err" THEN Err(PathNotFound)
             ELSE IF item.kind = "dir" THEN Collect(Tail(items), st, acc)
             ELSE LET name == IF st.strip_prefix.tag = "Some"
                              THEN trim_left_matches(item.path, st.strip_prefix.val)
                              ELSE item.path
                  IN  IF ~item.readable THEN Err(IOError)
                      ELSE Collect(Tail(items), st,
                                   Append(acc, [name |-> name, data |-> item.data]))

\* the entry list pack_directory hands to pack
SortedEntries(items, st) ==
    LET c == Collect(items, st, <<>>)
    IN  IF c.tag = "Ok" THEN SortBy(st.entry_order_criteria, c.val) ELSE <<>>

\* a variant: an item that fails is skipped and the rest is packed
RECURSIVE CollectSkipping(_, _, _)
CollectSkipping(items, st, acc) ==
    IF items = <<>> THEN acc
    ELSE LET item == Head(items)
             name == IF st.strip_prefix.tag = "Some"
                     THEN trim_left_matches(item.path, st.strip_prefix.val)
                     ELSE item.path
         IN  IF item.kind = "file" /\ item.readable
             THEN CollectSkipping(Tail(items), st, Append(acc, [name |-> name, data |-> item.data]))
             ELSE CollectSkipping(Tail(items), st, acc)

pack_directory_skipping(items, st) ==
    pack(SortBy(st.entry_order_criteria, CollectSkipping(items, st, <<>>)), st.kind)

pack_directory(items, st) ==
    LET c == Collect(items, st, <<>>)
    IN  IF c.tag # "Ok" THEN c
        ELSE pack(SortBy(st.entry_order_criteria, c.val), st.kind)

(***************************************************************************)
(* writer/mod.rs: pack_directory, which writes the archive to a file.  An  *)
(* Entry is [source_path, data, readable]; its len is the length of data.  *)
(***************************************************************************)
\* the kinds of the writer: its match has an arm for any other kind
WriterKinds == Kinds \cup {"Unknown"}

\* the loop `for entry_res in WalkDir::new(input_directory)`
RECURSIVE WriterCollect(_, _)
WriterCollect(items, acc) ==
    IF items = <<>> THEN Ok(acc)
    ELSE LET item == Head(items)
         IN  IF item.kind = "err" THEN Err(PathNotFound)
             ELSE IF item.kind = "dir" THEN WriterCollect(Tail(items), acc)
             ELSE WriterCollect(Tail(items),
                      Append(acc, [source_path |-> item.path, data |-> item.data,
                                   readable |-> item.readable]))

\* size_of::<u32>() + size_of::<u32>() + source_path_lossy().len() + 1
table_record_size(e) == 4 + 4 + Len(e.source_path) + 1

calc_table_size(es) == SumSeq([i \in 1..Len(es) |-> table_record_size(es[i])])

\* the path written into a record
WriterPath(e, strip_prefix) ==
    IF strip_prefix.tag = "Some" /\ StartsWith(e.source_path, strip_prefix.val)
    THEN trim_left_matches(e.source_path, strip_prefix.val)
    ELSE e.source_path

\* "Write the entry metadata table"
RECURSIVE WriterRecords(_, _, _, _, _)
WriterRecords(es, i, last_offset, last_len, strip_prefix) ==
    IF i > Len(es) THEN <<>>
    ELSE LET len == Len(es[i].data)
             offset == last_offset + last_len
         IN  WriteU32BE(AsU32(offset)) \o WriteU32BE(AsU32(len))
                 \o WriterPath(es[i], strip_prefix) \o <<0>>
                 \o WriterRecords(es, i + 1, offset, len, strip_prefix)

\* the entries in the order they are written
WriterEntries(items) ==
    LET c == WriterCollect(items, <<>>)
    IN  IF c.tag = "Ok" THEN SortBy("SmallestToLargest", c.val) ELSE <<>>

\* Ok(the bytes written to output_filepath), an error, or a panic
writer_pack_directory(items, k, strip_prefix) ==
    LET c == WriterCollect(items, <<>>)
        es == WriterEntries(items)
        data_start == HEADER_LEN + calc_table_size(es)
        total == SumSeq([i \in 1..Len(es) |-> Len(es[i].data)])
    IN  IF c.tag # "Ok" THEN c
        ELSE IF c.val = <<>> THEN Err(Custom)
        ELSE IF k \notin Kinds THEN Panic
        ELSE IF \E i \in 1..Len(es) : ~es[i].readable THEN Err(Custom)
        ELSE Ok(KindBytes(k) \o WriteU32LE(AsU32(data_start + total))
                    \o WriteU32BE(AsU32(Len(es))) \o WriteU32BE(AsU32(data_start))
                    \o WriterRecords(es, 1, data_start, 0, strip_prefix)
                    \o Concat([i \in 1..Len(es) |-> es[i].data]))

(***************************************************************************)
(* The inputs the callers draw from.                                       *)
(***************************************************************************)
SeqsUpTo(S, n) == UNION {[1..k -> S] : k \in 0..n}

\* entry names: "A", "B", "é" and "A\0"
PackNames == {<<65>>, <<66>>, <<195, 169>>, <<65, 0>>}

PackDatas == {<<>>, <<7>>, <<9, 7>>}

\* the entry lists handed to pack; the shorter ones may hold the empty name
EntryLists ==
    SeqsUpTo([name : PackNames, data : PackDatas], MaxEntries)
        \cup SeqsUpTo([name : PackNames \cup {<<>>}, data : PackDatas], MaxEntries - 1)

\* the command lines of unpack: --all, or --names with one or more names
\* ("A", "B", both, or a name that no packed archive holds)
UnpackArgs ==
    {[all |-> TRUE, names |-> {}]}
        \cup {[all |-> FALSE, names |-> ns] : ns \in {{<<65>>}, {<<66>>}, {<<65>>, <<66>>}, {<<67>>}}}

\* payload lengths: 0, 1, 2^31, 2^32 - 1 and 2^32
PayloadLengths ==
    {UsizeOf(0), UsizeOf(1), [hi |-> 32768, lo |-> 0], [hi |-> 65535, lo |-> 65535],
     [hi |-> 65536, lo |-> 0]}

EntriesOfLengths == SeqsUpTo([name : {<<65>>, <<66>>}, len : PayloadLengths], MaxEntries)

\* the bytes of "BIG4" and "BIGF"
MagicAlphabet == {52, 66, 70, 71, 73}

\* a well-formed archive, of which every prefix is a buffer a caller may hold
Template == pack(<<[name |-> <<65>>, data |-> <<7>>], [name |-> <<66>>, data |-> <<>>]>>, "BigF").val.data

RawBuffers ==
    SeqsUpTo(MagicAlphabet, MaxRawLen) \cup {<<0>>}
        \cup {SubSeq(Template, 1, n) : n \in 0..Len(Template)}

\* the four bytes of a header field: 0, 1 and u32::MAX as the tests write
\* them, and a value whose four bytes differ
HeaderFields == {<<0, 0, 0, 0>>, <<1, 0, 0, 0>>, <<0, 0, 0, 1>>, <<255, 255, 255, 255>>, <<1, 2, 3, 4>>}

\* b"BIGF" followed by a size field, and by all three fields of the header
HeaderBuffers ==
    {MagicBigF \o a : a \in HeaderFields}
        \cup {MagicBigF \o a \o b \o c : a \in HeaderFields, b \in HeaderFields, c \in HeaderFields}

\* the names looked up in a hand-made table: "A" and "B"
QueryNames == {<<65>>, <<66>>}

\* hand-made tables: one record, named "A"
CraftedTables ==
    {[n \in {<<65>>} |-> [offset |-> o, len |-> l, name |-> <<65>>]] :
        o \in {AsU32(0), AsU32(2)}, l \in {AsU32(0), AsU32(3), [hi |-> 65535, lo |-> 65535]}}

\* the items of a walk: the root directory, files below it, a failed item
TreeItems ==
    {[kind |-> "dir", path |-> <<100>>, data |-> <<>>, readable |-> TRUE],
     [kind |-> "dir", path |-> <<100, 100>>, data |-> <<>>, readable |-> TRUE],
     [kind |-> "err", path |-> <<100, 101>>, data |-> <<>>, readable |-> FALSE]}
    \cup [kind : {"file"}, path : {<<100, 65>>, <<100, 100, 65>>, <<100, 66>>},
          data : {<<7>>, <<9, 7>>}, readable : {TRUE}]
    \cup {[kind |-> "file", path |-> <<100, 67>>, data |-> <<>>, readable |-> FALSE]}

\* WalkDir yields a path once
Trees ==
    {t \in SeqsUpTo(TreeItems, MaxTree) :
        \A i \in 1..Len(t) : \A j \in 1..Len(t) : i # j => t[i].path # t[j].path}

SettingsSet ==
    [entry_order_criteria : {"SmallestToLargest", "Path"},
     strip_prefix : {None, Some(<<100>>), Some(<<66>>)},
     kind : Kinds]

NoArchive == [some |-> FALSE, data |-> <<>>]

NoTable == [some |-> FALSE, map |-> EmptyTable]

NoOutput == [some |-> FALSE, data |-> <<>>]

NoSettings == [entry_order_criteria |-> "Path", strip_prefix |-> None, kind |-> "BigF"]

(***************************************************************************)
(* The state machine: a caller constructs an archive, then reads it.       *)
(***************************************************************************)
Init ==
    /\ op = "init"
    /\ arg = <<>>
    /\ entries = <<>>
    /\ kind = "BigF"
    /\ tree = <<>>
    /\ settings = NoSettings
    /\ archive = NoArchive
    /\ table = NoTable
    /\ output = NoOutput
    /\ result = None

\* a panic unwinds the caller: nothing is called after it
Running == result.tag # "Panic"

Holding(r) == IF r.tag = "Ok" THEN [some |-> TRUE, data |-> r.val.data] ELSE NoArchive

CallPack(es, k) ==
    /\ op = "init"
    /\ op' = "pack"
    /\ entries' = es
    /\ kind' = k
    /\ LET r == pack(es, k)
       IN  result' = r /\ archive' = Holding(r)
    /\ UNCHANGED <<output, arg, tree, settings, table>>

CallPackDirectory(t, st) ==
    /\ op = "init"
    /\ op' = "pack_directory"
    /\ tree' = t
    /\ settings' = st
    /\ entries' = SortedEntries(t, st)
    /\ kind' = st.kind
    /\ LET r == pack_directory(t, st)
       IN  result' = r /\ archive' = Holding(r)
    /\ UNCHANGED <<output, arg, table>>

CallTryFromBytes(b) ==
    /\ op = "init"
    /\ op' = "try_from_bytes"
    /\ arg' = b
    /\ result' = try_from_bytes(b)
    /\ UNCHANGED <<output, entries, kind, tree, settings, archive, table>>

CallFromBytes(b) ==
    /\ op = "init"
    /\ op' = "from_bytes"
    /\ arg' = b
    /\ LET r == from_bytes(b)
       IN  result' = r /\ archive' = Holding(r)
    /\ UNCHANGED <<output, entries, kind, tree, settings, table>>

\* the caller builds an EntryInfoTable of its own
CraftTable(t) ==
    /\ archive.some /\ Running
    /\ op' = "craft_table"
    /\ table' = [some |-> TRUE, map |-> t]
    /\ result' = None
    /\ arg' = <<>>
    /\ UNCHANGED <<output, entries, kind, tree, settings, archive>>

CallReadKind ==
    /\ archive.some /\ Running
    /\ op' = "read_kind"
    /\ result' = read_kind(archive)
    /\ arg' = <<>>
    /\ UNCHANGED <<output, entries, kind, tree, settings, archive, table>>

CallReadSize ==
    /\ archive.some /\ Running
    /\ op' = "read_size"
    /\ result' = read_size(archive)
    /\ arg' = <<>>
    /\ UNCHANGED <<output, entries, kind, tree, settings, archive, table>>

CallReadLen ==
    /\ archive.some /\ Running
    /\ op' = "read_len"
    /\ result' = read_len(archive)
    /\ arg' = <<>>
    /\ UNCHANGED <<output, entries, kind, tree, settings, archive, table>>

CallReadDataStart ==
    /\ archive.some /\ Running
    /\ op' = "read_data_start"
    /\ result' = read_data_start(archive)
    /\ arg' = <<>>
    /\ UNCHANGED <<output, entries, kind, tree, settings, archive, table>>

\* read_entry_metadata_table whose cursor consumes the archive's own buffer
CallReadEntryMetadataTableDraining ==
    /\ archive.some /\ Running
    /\ op' = "read_entry_metadata_table"
    /\ LET r == read_entry_metadata_table(archive)
       IN  /\ result' = r
           /\ table' = IF r.tag = "Ok" THEN [some |-> TRUE, map |-> r.val] ELSE table
           /\ archive' = IF r.tag = "Ok" /\ Len(archive.data) > HEADER_LEN
                            THEN [archive EXCEPT !.data = SubSeq(archive.data, 1, HEADER_LEN)]
                            ELSE archive
    /\ arg' = <<>>
    /\ UNCHANGED <<output, entries, kind, tree, settings>>

CallReadEntryMetadataTable ==
    /\ archive.some /\ Running
    /\ op' = "read_entry_metadata_table"
    /\ LET r == read_entry_metadata_table(archive)
       IN  /\ result' = r
           /\ table' = IF r.tag = "Ok" THEN [some |-> TRUE, map |-> r.val] ELSE table
    /\ arg' = <<>>
    /\ UNCHANGED <<output, entries, kind, tree, settings, archive>>

CallGetBytesViaTable(name) ==
    /\ archive.some /\ Running
    /\ table.some
    /\ op' = "get_bytes_via_table"
    /\ arg' = name
    /\ result' = get_bytes_via_table(archive, table.map, name)
    /\ UNCHANGED <<output, entries, kind, tree, settings, archive, table>>

CallReadSecretData ==
    /\ archive.some /\ Running
    /\ table.some
    /\ op' = "read_secret_data"
    /\ result' = read_secret_data(archive, table.map)
    /\ arg' = <<>>
    /\ UNCHANGED <<output, entries, kind, tree, settings, archive, table>>

\* writer::pack_directory; entries holds the names and data as written
CallWriterPackDirectory(t, k, strip_prefix) ==
    /\ op = "init"
    /\ op' = "writer_pack_directory"
    /\ tree' = t
    /\ kind' = k
    /\ settings' = [entry_order_criteria |-> "SmallestToLargest",
                    strip_prefix |-> strip_prefix, kind |-> k]
    /\ entries' = [i \in 1..Len(WriterEntries(t)) |->
                      [name |-> WriterPath(WriterEntries(t)[i], strip_prefix),
                       data |-> WriterEntries(t)[i].data]]
    /\ LET r == writer_pack_directory(t, k, strip_prefix)
       IN  /\ result' = IF r.tag = "Ok" THEN Ok(<<>>) ELSE r
           /\ output' = IF r.tag = "Ok" THEN [some |-> TRUE, data |-> r.val] ELSE output
    /\ UNCHANGED <<arg, archive, table>>

\* the unpack command on an archive file that holds what pack returned
CallUnpack(args) ==
    /\ archive.some /\ Running
    /\ op = "pack"
    /\ op' = "unpack"
    /\ arg' = args
    /\ \E outcome \in run(archive, args.all, args.names) :
           /\ result' = outcome[1]
           /\ output' = [some |-> TRUE, data |-> outcome[2]]
    /\ table' = LET t == read_entry_metadata_table(archive)
                IN  IF t.tag = "Ok" THEN [some |-> TRUE, map |-> t.val] ELSE table
    /\ UNCHANGED <<entries, kind, tree, settings, archive>>

\* pack of entries whose payloads are given by their lengths
CallPackOfLengths(es, k) ==
    /\ op = "init"
    /\ op' = "pack_of_lengths"
    /\ entries' = es
    /\ kind' = k
    /\ result' = pack_of_lengths(es, k)
    /\ UNCHANGED <<output, arg, tree, settings, archive, table>>

\* packing an entry list, or taking a buffer with a header, and reading the
\* header of the archive
Next ==
    \/ op = "init" /\ \E es \in EntryLists : \E k \in Kinds : CallPack(es, k)
    \/ op = "init" /\ \E b \in HeaderBuffers : CallFromBytes(b)
    \/ CallReadKind
    \/ CallReadSize
    \/ CallReadLen
    \/ CallReadDataStart

Spec == Init /\ [][Next]_vars

\* packing an entry list, reading the table of the archive, looking names up
\* and reading the secret data
NextTable ==
    \/ op = "init" /\ \E es \in EntryLists : \E k \in Kinds : CallPack(es, k)
    \/ CallReadEntryMetadataTable
    \/ table.some /\ \E name \in PackNames : CallGetBytesViaTable(name)
    \/ CallReadSecretData

SpecTable == Init /\ [][NextTable]_vars

\* reading a buffer that need not be an archive, with a table that need not be its own
NextRaw ==
    \/ op = "init" /\ \E b \in RawBuffers : CallTryFromBytes(b)
    \/ op = "init" /\ \E b \in RawBuffers \cup HeaderBuffers : CallFromBytes(b)
    \/ archive.some /\ \E t \in CraftedTables : CraftTable(t)
    \/ CallReadKind
    \/ CallReadSize
    \/ CallReadLen
    \/ CallReadDataStart
    \/ CallReadEntryMetadataTable
    \/ table.some /\ \E name \in QueryNames : CallGetBytesViaTable(name)
    \/ CallReadSecretData

SpecRaw == Init /\ [][NextRaw]_vars

\* packing a directory, or an entry list of at most one entry
NextDir ==
    \/ op = "init" /\ \E t \in Trees : \E st \in SettingsSet : CallPackDirectory(t, st)
    \/ op = "init" /\ \E es \in SeqsUpTo([name : PackNames, data : PackDatas], 1) :
                          \E k \in Kinds : CallPack(es, k)

SpecDir == Init /\ [][NextDir]_vars

\* writing the archive of a directory to a file
NextWriter ==
    op = "init" /\ \E t \in Trees : \E k \in WriterKinds :
                       \E strip_prefix \in {None, Some(<<100>>), Some(<<66>>)} :
                           CallWriterPackDirectory(t, k, strip_prefix)

SpecWriter == Init /\ [][NextWriter]_vars

\* packing an entry list and unpacking the archive
NextUnpack ==
    \/ op = "init" /\ \E es \in EntryLists : \E k \in Kinds : CallPack(es, k)
    \/ op = "pack" /\ \E args \in UnpackArgs : CallUnpack(args)

SpecUnpack == Init /\ [][NextUnpack]_vars

\* packing entries with payloads of up to 4 GiB
NextLengths ==
    op = "init" /\ \E es \in EntriesOfLengths : \E k \in Kinds : CallPackOfLengths(es, k)

SpecLengths == Init /\ [][NextLengths]_vars


(***************************************************************************)
(* Properties.  Helpers first: what a caller expects, written from the     *)
(* inputs alone.                                                           *)
(***************************************************************************)
OutOfBounds == [kind |-> "OutOfBounds", magic |-> <<>>]

IsErr(r, k) == r.tag = "Err" /\ r.val.kind = k

UniqueNames(es) ==
    \A i \in 1..Len(es) : \A j \in 1..Len(es) : i # j => es[i].name # es[j].name

NonEmptyNames(es) == \A i \in 1..Len(es) : es[i].name # <<>>

NoNulInNames(es) ==
    \A i \in 1..Len(es) : \A p \in 1..Len(es[i].name) : es[i].name[p] # 0

\* the bytes of the names of the first n entries
RECURSIVE NameBytes(_, _)
NameBytes(es, n) == IF n = 0 THEN 0 ELSE Len(es[n].name) + NameBytes(es, n - 1)

\* the bytes of the payloads of the first n entries
RECURSIVE DataBytes(_, _)
DataBytes(es, n) == IF n = 0 THEN 0 ELSE Len(es[n].data) + DataBytes(es, n - 1)

\* where the i-th record of the table starts in the packed buffer
RecordPos(es, i) == 16 + 9 * (i - 1) + NameBytes(es, i - 1)

\* the big-endian number in the four bytes from the 0-based position pos on
FieldAt(b, pos) == b[pos + 1] * 16777216 + b[pos + 2] * 65536 + b[pos + 3] * 256 + b[pos + 4]

\* the value of a u32 result, when it is an Ok of a number below 2^31
IsOkNumber(r, n) == r.tag = "Ok" /\ r.val.hi < 32768 /\ r.val.hi * 65536 + r.val.lo = n

RoundTripCase ==
    /\ entries # <<>>
    /\ UniqueNames(entries)
    /\ NonEmptyNames(entries)

\* C1 (as amended): for a non-empty entry list with unique, non-empty names
\* that hold no NUL byte, the table of the packed archive is read without
\* error and get_bytes_via_table(table, name) is Some of exactly the bytes
\* packed under that name, the empty byte string included.
C1_RoundTripNoNul ==
    (RoundTripCase /\ NoNulInNames(entries)) =>
        /\ op = "read_entry_metadata_table" => result.tag = "Ok"
        /\ \A i \in 1..Len(entries) :
               (op = "get_bytes_via_table" /\ arg = entries[i].name) =>
                   (result.tag = "Some" /\ result.val = entries[i].data)

\* C1 (as stated): the same for every list with unique, non-empty names,
\* a name holding a NUL byte included.
C1_RoundTripAnyName ==
    RoundTripCase =>
        /\ op = "read_entry_metadata_table" => result.tag = "Ok"
        /\ \A i \in 1..Len(entries) :
               (op = "get_bytes_via_table" /\ arg = entries[i].name) =>
                   (result.tag = "Some" /\ result.val = entries[i].data)

C1_Witness ==
    /\ op = "get_bytes_via_table"
    /\ Len(entries) = 3
    /\ RoundTripCase /\ NoNulInNames(entries)
    /\ \E i \in 1..3 : entries[i].data = <<>>
    /\ arg = entries[3].name
    /\ entries[3].data = <<9, 7>>
    /\ result = Some(<<9, 7>>)

\* C2: the archive pack returns for a non-empty entry list and a kind has
\* read_kind() = that kind and read_len() = the number of entries.
C2_HeaderRoundTrip ==
    (op \in {"read_kind", "read_len"} /\ entries # <<>>) =>
        /\ op = "read_kind" => (result.tag = "Ok" /\ result.val = kind)
        /\ op = "read_len" => IsOkNumber(result, Len(entries))

C2_Witness ==
    /\ op = "read_kind"
    /\ Len(entries) = 3
    /\ kind = "Big4"
    /\ result = Ok("Big4")

\* C3: get_bytes_via_table for a name whose record has offset + length beyond
\* the buffer returns an OutOfBounds error value and never panics.
C3_BoundsRejection ==
    (/\ op = "get_bytes_via_table"
     /\ arg \in DOMAIN table.map
     /\ ~RangeOk(archive.data, table.map[arg].offset, table.map[arg].len))
        => IsErr(result, "OutOfBounds")

\* C4: each header reader returns a length error as a value on a buffer too
\* short for its field (4, 8, 12, 16 bytes); none of them panics.
C4_ShortHeaderReads ==
    /\ (op = "read_kind" /\ Len(archive.data) < 4) => result.tag = "Err"
    /\ (op = "read_size" /\ Len(archive.data) < 8) => result.tag = "Err"
    /\ (op = "read_len" /\ Len(archive.data) < 12) => result.tag = "Err"
    /\ (op = "read_data_start" /\ Len(archive.data) < 16) => result.tag = "Err"

\* what magic validation owes for the bytes b
MagicVerdict(b, r) ==
    IF b = <<66, 73, 71, 52>> THEN r.tag = "Ok" /\ r.val = "Big4"
    ELSE IF b = <<66, 73, 71, 70>> THEN r.tag = "Ok" /\ r.val = "BigF"
    ELSE IsErr(r, "InvalidMagic") /\ r.val.magic = b

\* C5: Kind::try_from_bytes(b) is Big4 exactly for "BIG4", BigF exactly for
\* "BIGF", and otherwise InvalidMagic carrying b, for b of any length;
\* read_kind on an archive of at least 4 bytes gives that result for the
\* first 4 bytes of the buffer.
C5_MagicValidation ==
    /\ op = "try_from_bytes" => MagicVerdict(arg, result)
    /\ (op = "read_kind" /\ Len(archive.data) >= 4) =>
           MagicVerdict(SubSeq(archive.data, 1, 4), result)

C5_Witness ==
    /\ op = "read_kind"
    /\ Len(archive.data) = 4
    /\ IsErr(result, "InvalidMagic")
    /\ result.val.magic = <<73, 66, 52, 71>>

WalkWithoutFiles(t) == \A i \in 1..Len(t) : t[i].kind = "dir"

\* C6: pack of an empty entry list is Err(AttemptCreateEmpty) for every kind
\* and yields no archive; pack_directory over a tree without files fails
\* the same way.
C6_EmptyRejection ==
    /\ (op = "pack" /\ entries = <<>>) =>
           (IsErr(result, "AttemptCreateEmpty") /\ ~archive.some)
    /\ (op = "pack_directory" /\ WalkWithoutFiles(tree)) =>
           (IsErr(result, "AttemptCreateEmpty") /\ ~archive.some)

C6_Witness ==
    /\ op = "pack_directory"
    /\ Len(tree) = 2
    /\ WalkWithoutFiles(tree)
    /\ settings.kind = "Big4"
    /\ IsErr(result, "AttemptCreateEmpty")

C8_HeaderArithmetic ==
    (op \in {"read_data_start", "read_size"} /\ entries # <<>>) =>
        LET n == Len(entries)
            data_start == 16 + 9 * n + NameBytes(entries, n)
        IN  /\ op = "read_data_start" => IsOkNumber(result, data_start)
            /\ op = "read_size" => IsOkNumber(result, data_start + DataBytes(entries, n))

C8_Witness ==
    /\ op = "read_size"
    /\ Len(entries) = 3
    /\ NameBytes(entries, 3) = 5
    /\ DataBytes(entries, 3) = 3
    /\ IsOkNumber(result, 51)

\* C9: in an archive pack produced, the first record's offset is data_start
\* and each record's offset + length is the next record's offset, for any
\* number of entries and entries of length 0.
C9_OffsetContiguity ==
    (archive.some /\ entries # <<>>) =>
        LET b == archive.data
            offset(i) == FieldAt(b, RecordPos(entries, i))
            length(i) == FieldAt(b, RecordPos(entries, i) + 4)
        IN  /\ offset(1) = FieldAt(b, 12)
            /\ \A i \in 1..(Len(entries) - 1) : offset(i) + length(i) = offset(i + 1)

C9_Witness ==
    /\ op = "pack"
    /\ archive.some
    /\ Len(entries) = 3
    /\ entries[1].data = <<9, 7>>
    /\ entries[2].data = <<>>
    /\ entries[3].data = <<7>>
    /\ FieldAt(archive.data, RecordPos(entries, 3)) = FieldAt(archive.data, 12) + 2

IsLastOf(es, i, key) ==
    /\ es[i].name = key
    /\ \A j \in (i + 1)..Len(es) : es[j].name # key

C13_TableContents ==
    (/\ op = "read_entry_metadata_table"
     /\ entries # <<>> /\ UniqueNames(entries) /\ NoNulInNames(entries)) =>
        /\ result.tag = "Ok"
        /\ DOMAIN result.val = {entries[i].name : i \in 1..Len(entries)}
        /\ \A i \in 1..Len(entries) :
               /\ Small(result.val[entries[i].name].len)
               /\ AsUsize(result.val[entries[i].name].len) = Len(entries[i].data)

C13_Witness ==
    /\ op = "read_entry_metadata_table"
    /\ Len(entries) = 3
    /\ UniqueNames(entries) /\ NoNulInNames(entries)
    /\ entries[2].name = <<195, 169>> /\ entries[2].data = <<>>
    /\ entries[3].data = <<9, 7>>
    /\ result.tag = "Ok"
    /\ DOMAIN result.val = {<<65>>, <<66>>, <<195, 169>>}
    /\ result.val[<<195, 169>>].len = AsU32(0)

\* the u32 of four bytes, the most significant first
U32Of(b3, b2, b1, b0) == [hi |-> b3 * 256 + b2, lo |-> b1 * 256 + b0]

\* C14: read_size returns the little-endian u32 of the bytes [4,8), for
\* every value up to 2^32-1; read_len and read_data_start return the
\* big-endian u32 of the bytes [8,12) and [12,16); pack writes total_size
\* little-endian, and entry_count, data_start and each record's offset and
\* length big-endian.
C14_FieldDecoding ==
    LET b == archive.data
        n == Len(entries)
        data_start == Len(b) - DataBytes(entries, n)
    IN  /\ (op = "read_size" /\ Len(b) >= 8) =>
               (result.tag = "Ok" /\ result.val = U32Of(b[8], b[7], b[6], b[5]))
        /\ (op = "read_len" /\ Len(b) >= 12) =>
               (result.tag = "Ok" /\ result.val = U32Of(b[9], b[10], b[11], b[12]))
        /\ (op = "read_data_start" /\ Len(b) >= 16) =>
               (result.tag = "Ok" /\ result.val = U32Of(b[13], b[14], b[15], b[16]))
        /\ (op = "pack" /\ archive.some) =>
               /\ <<b[5], b[6], b[7], b[8]>> = <<Len(b) % 256, Len(b) \div 256, 0, 0>>
               /\ <<b[9], b[10], b[11], b[12]>> = <<0, 0, n \div 256, n % 256>>
               /\ <<b[13], b[14], b[15], b[16]>> = <<0, 0, data_start \div 256, data_start % 256>>
               /\ \A i \in 1..n :
                      LET p == RecordPos(entries, i)
                          offset == data_start + DataBytes(entries, i - 1)
                          len == Len(entries[i].data)
                      IN  /\ SubSeq(b, p + 1, p + 4) = <<0, 0, offset \div 256, offset % 256>>
                          /\ SubSeq(b, p + 5, p + 8) = <<0, 0, len \div 256, len % 256>>

C14_Witness ==
    /\ op = "read_size"
    /\ SubSeq(archive.data, 5, 8) = <<255, 255, 255, 255>>
    /\ result = Ok([hi |-> 65535, lo |-> 65535])

\* the walk that yields the items of t in the order perm
Reordered(t, perm) == [i \in 1..Len(t) |-> t[perm[i]]]

\* C15: with the by-path ordering and unique names, the archive packed from
\* a directory does not depend on the order the entries were collected in:
\* every reordering of the walk packs to the same bytes.
C15_OrderingDeterminism ==
    (/\ op = "pack_directory"
     /\ result.tag = "Ok"
     /\ settings.entry_order_criteria = "Path"
     /\ UniqueNames(entries)) =>
        \A perm \in Permutations(1..Len(tree)) :
            LET again == pack_directory(Reordered(tree, perm), settings)
            IN  again.tag = "Ok" /\ again.val.data = archive.data

C15_Witness ==
    /\ op = "pack_directory"
    /\ result.tag = "Ok"
    /\ settings.entry_order_criteria = "Path"
    /\ Len(tree) = 3
    /\ tree[1].path = <<100, 66>> /\ tree[1].data = <<7>>
    /\ tree[2].path = <<100, 100, 65>>
    /\ tree[3].path = <<100, 65>> /\ tree[3].data = <<9, 7>>
    /\ UniqueNames(entries)
    /\ entries[1].data = <<9, 7>>
    /\ entries[2].data = <<7>>

\* whether b is the whole archive of the entries es: the header with their
\* count, a record with the name of each, and the payload of each
Complete(b, es) ==
    LET n == Len(es)
        data_start == 16 + 9 * n + NameBytes(es, n)
    IN  /\ n > 0
        /\ Len(b) = data_start + DataBytes(es, n)
        /\ FieldAt(b, 8) = n
        /\ \A i \in 1..n :
               LET p == RecordPos(es, i)
                   q == data_start + DataBytes(es, i - 1)
               IN  /\ SubSeq(b, p + 9, p + 9 + Len(es[i].name)) = es[i].name \o <<0>>
                   /\ SubSeq(b, q + 1, q + Len(es[i].data)) = es[i].data

\* whether the walk has an item that fails: an error of the walk or a file
\* that cannot be read
WalkFails(t) == \E i \in 1..Len(t) : t[i].kind = "err" \/ ~t[i].readable

FilesOf(t) == {i \in 1..Len(t) : t[i].kind = "file"}

\* C16: a call of pack or pack_directory returns either a complete archive
\* (header, full table, all payloads: for pack_directory, of every file of
\* the walk) or an error; with an error no archive is returned and no
\* partly written buffer is in the caller's hands.
C16_AllOrNothing ==
    op \in {"pack", "pack_directory"} =>
        /\ IF result.tag = "Ok"
           THEN /\ archive.some
                /\ archive.data = result.val.data
                /\ Complete(archive.data, entries)
           ELSE result.tag = "Err" /\ ~archive.some
        /\ op = "pack_directory" =>
               IF WalkFails(tree) THEN result.tag = "Err"
               ELSE result.tag = "Ok" => Len(entries) = Cardinality(FilesOf(tree))

C16_Witness ==
    /\ op = "pack_directory"
    /\ Len(tree) = 3
    /\ tree[1].kind = "file" /\ tree[1].readable
    /\ tree[2].kind = "file" /\ ~tree[2].readable
    /\ tree[3].kind = "file" /\ tree[3].readable
    /\ IsErr(result, "IO")
    /\ ~archive.some

\* the 0-based position of the first NUL at or after c, Len(b) if there is none
RECURSIVE FirstNul(_, _)
FirstNul(b, c) ==
    IF c >= Len(b) THEN Len(b)
    ELSE IF b[c + 1] = 0 THEN c
    ELSE FirstNul(b, c + 1)

\* whether the buffer holds, from the position c on, the records from the
\* i-th to the n-th: 4 bytes of offset, 4 of length, a name ended by NUL
RECURSIVE HasRecords(_, _, _, _)
HasRecords(b, c, i, n) ==
    IF n = AsU32(i) THEN TRUE
    ELSE IF c + 8 > Len(b) THEN FALSE
    ELSE IF FirstNul(b, c + 8) >= Len(b) THEN FALSE
    ELSE HasRecords(b, FirstNul(b, c + 8) + 1, i + 1, n)

\* C17: read_entry_metadata_table returns an error, neither a table nor a
\* panic, whenever the buffer ends before entry_count complete records have
\* been read from offset 16 on: also when it ends right after a record's
\* length field, and when the last name has no NUL before the buffer's end.
C17_TruncatedTable ==
    (/\ op = "read_entry_metadata_table"
     /\ Len(archive.data) >= 12
     /\ ~HasRecords(archive.data, 16, 0, ReadU32BE(SubSeq(archive.data, 9, 12)))) =>
        result.tag = "Err"

\* the data_start field of a buffer of at least 16 bytes
DataStartOf(b) == ReadU32BE(SubSeq(b, 13, 16))

\* C18: read_secret_data(table) returns an error value and never panics
\* when 16 + table_size computed from the table is greater than the
\* data_start field, and when data_start is greater than the buffer length.
C18_SecretBounds ==
    (/\ op = "read_secret_data"
     /\ Len(archive.data) >= 16
     /\ \/ ~Small(DataStartOf(archive.data))
        \/ AsUsize(DataStartOf(archive.data)) > Len(archive.data)
        \/ 16 + TableSize(table.map) > AsUsize(DataStartOf(archive.data))) =>
        result.tag = "Err"

\* 16 + the sum over the table's records of (8 + byte length of name + 1)
RECURSIVE SecretOffset(_, _)
SecretOffset(t, keys) ==
    IF keys = {} THEN 16
    ELSE LET k == CHOOSE n \in keys : TRUE
         IN  9 + Len(t[k].name) + SecretOffset(t, keys \ {k})

\* C19: with secret_offset = 16 + the sum over the table's records of
\* (8 + byte length of name + 1), read_secret_data(table) returns None
\* exactly when secret_offset = data_start, and for secret_offset <
\* data_start <= buffer length exactly the bytes [secret_offset, data_start).
C19_SecretExtraction ==
    (op = "read_secret_data" /\ Len(archive.data) >= 16) =>
        LET b == archive.data
            secret_offset == SecretOffset(table.map, DOMAIN table.map)
            equal == Small(DataStartOf(b)) /\ secret_offset = AsUsize(DataStartOf(b))
        IN  /\ equal => result = Ok(None)
            /\ result = Ok(None) => equal
            /\ (/\ Small(DataStartOf(b))
                /\ secret_offset < AsUsize(DataStartOf(b))
                /\ AsUsize(DataStartOf(b)) <= Len(b)) =>
                   result = Ok(Some(SubSeq(b, secret_offset + 1, AsUsize(DataStartOf(b)))))

C19_Witness ==
    /\ op = "read_secret_data"
    /\ DOMAIN table.map = {<<65>>}
    /\ Len(archive.data) = 37
    /\ result = Ok(Some(SubSeq(archive.data, 27, 36)))

\* C20: when the table on disk holds several records of one name,
\* read_entry_metadata_table returns a table with one key for that name,
\* mapped to the offset and length of the record that comes last on disk,
\* and the table has fewer keys than entry_count.
C20_DuplicateLastWins ==
    (/\ op = "read_entry_metadata_table"
     /\ entries # <<>> /\ NoNulInNames(entries) /\ ~UniqueNames(entries)) =>
        LET n == Len(entries)
            data_start == 16 + 9 * n + NameBytes(entries, n)
        IN  /\ result.tag = "Ok"
            /\ DOMAIN result.val = {entries[i].name : i \in 1..n}
            /\ Cardinality(DOMAIN result.val) < n
            /\ FieldAt(archive.data, 8) = n
            /\ \A i \in 1..n :
                   IsLastOf(entries, i, entries[i].name) =>
                       /\ result.val[entries[i].name].offset = AsU32(data_start + DataBytes(entries, i - 1))
                       /\ result.val[entries[i].name].len = AsU32(Len(entries[i].data))

C20_Witness ==
    /\ op = "read_entry_metadata_table"
    /\ Len(entries) = 3
    /\ entries[1] = [name |-> <<65>>, data |-> <<7>>]
    /\ entries[2].name = <<66>>
    /\ entries[3] = [name |-> <<65>>, data |-> <<9, 7>>]
    /\ result.tag = "Ok"
    /\ Cardinality(DOMAIN result.val) = 2
    /\ result.val[<<65>>].len = AsU32(2)

\* C21: for every archive pack produces, which holds no secret data, and the
\* table read from that archive, read_secret_data(table) returns None, also
\* when two entries of the list share a name.
C21_NoSpuriousSecret ==
    (op = "read_secret_data" /\ entries # <<>> /\ NoNulInNames(entries)) =>
        result = Ok(None)

\* the path with one leading occurrence of p removed, the path itself when
\* it does not start with p
StripOnce(path, p) ==
    IF StartsWith(path, p) THEN SubSeq(path, Len(p) + 1, Len(path)) ELSE path

\* C22: with strip_prefix = Some(p), the name stored for an entry whose path
\* starts with p is the path without that one leading occurrence of p
\* (path = p ++ name, also when the rest starts with p again), and a path
\* that does not start with p is stored unchanged.
C22_SinglePrefixStrip ==
    (/\ op = "pack_directory"
     /\ result.tag = "Ok"
     /\ settings.strip_prefix.tag = "Some") =>
        {<<entries[i].name, entries[i].data>> : i \in 1..Len(entries)}
            = {<<StripOnce(tree[i].path, settings.strip_prefix.val), tree[i].data>> :
                   i \in FilesOf(tree)}

\* C23: in the file the writer's pack_directory writes, also when a
\* strip_prefix shortens the names, the data_start field and the first
\* record's offset are the position of the first payload byte, 16 + the sum
\* over the records of (8 + length of the name written + 1), and the range
\* [offset, offset + length) of every record holds that entry's bytes.
C23_LayoutOverWrittenNames ==
    (op = "writer_pack_directory" /\ result.tag = "Ok") =>
        LET b == output.data
            n == Len(entries)
            first_payload == 16 + 9 * n + NameBytes(entries, n)
        IN  /\ FieldAt(b, 12) = first_payload
            /\ FieldAt(b, RecordPos(entries, 1)) = first_payload
            /\ \A i \in 1..n :
                   LET offset == FieldAt(b, RecordPos(entries, i))
                       length == FieldAt(b, RecordPos(entries, i) + 4)
                   IN  SubSeq(b, offset + 1, offset + length) = entries[i].data

\* whether a is before b, or equal to it, in the order of the criterion
KeyLeq(criteria, a, b) ==
    IF criteria = "Path" THEN NameLeq(a.name, b.name) ELSE Len(a.data) <= Len(b.data)

\* C24: pack_directory orders the table and the payloads by the final name
\* with the Path criterion and by ascending data length with
\* SmallestToLargest; entries that compare equal keep the order they were
\* collected in; the payload region holds the bytes in the table's order.
C24_EntryOrdering ==
    (op = "pack_directory" /\ result.tag = "Ok") =>
        LET collected == Collect(tree, settings, <<>>).val
            n == Len(collected)
            criteria == settings.entry_order_criteria
        IN  /\ Len(entries) = n
            /\ \E perm \in Permutations(1..n) :
                   /\ \A i \in 1..n : entries[i] = collected[perm[i]]
                   /\ \A i \in 1..n : \A j \in (i + 1)..n :
                          /\ KeyLeq(criteria, entries[i], entries[j])
                          /\ KeyLeq(criteria, entries[j], entries[i]) => perm[i] < perm[j]
            /\ Complete(archive.data, entries)

C24_Witness ==
    /\ op = "pack_directory"
    /\ result.tag = "Ok"
    /\ settings.entry_order_criteria = "SmallestToLargest"
    /\ settings.strip_prefix = None
    /\ Len(tree) = 3
    /\ tree[1].path = <<100, 65>> /\ tree[1].data = <<9, 7>>
    /\ tree[2].path = <<100, 66>> /\ tree[2].data = <<7>>
    /\ tree[3].path = <<100, 100, 65>> /\ tree[3].data = <<7>>
    /\ entries[1].name = <<100, 66>>
    /\ entries[2].name = <<100, 100, 65>>
    /\ entries[3].name = <<100, 65>>

\* C25: the total_size field of every archive pack produces is the length
\* in bytes of the buffer produced (read_size() = as_slice().len()), and the
\* last record's offset + length is that same length.
C25_TotalSizeIsLength ==
    entries # <<>> =>
        /\ op = "read_size" => IsOkNumber(result, Len(archive.data))
        /\ archive.some =>
               LET p == RecordPos(entries, Len(entries))
               IN  FieldAt(archive.data, p) + FieldAt(archive.data, p + 4) = Len(archive.data)

C25_Witness ==
    /\ op = "read_size"
    /\ Len(entries) = 3
    /\ entries[1].data = <<7>>
    /\ entries[3].data = <<9, 7>>
    /\ IsOkNumber(result, Len(archive.data))
    /\ FieldAt(archive.data, RecordPos(entries, 3)) = Len(archive.data) - 2

\* the true value of the sum of the lengths of the first n entries
RECURSIVE TrueDataBytes(_, _)
TrueDataBytes(es, n) ==
    IF n = 0 THEN [hi |-> 0, lo |-> 0]
    ELSE LET rest == TrueDataBytes(es, n - 1)
             lo == rest.lo + es[n].len.lo
         IN  [hi |-> rest.hi + es[n].len.hi + lo \div 65536, lo |-> lo % 65536]

\* the true value of n + the sum of the lengths of the first k entries
TrueEnd(es, n, k) ==
    LET d == TrueDataBytes(es, k)
    IN  [hi |-> d.hi + (d.lo + n) \div 65536, lo |-> (d.lo + n) % 65536]

\* whether the four bytes at the 0-based position pos, the most significant
\* first, hold the value v
FieldHolds(b, pos, v) ==
    <<b[pos + 1], b[pos + 2], b[pos + 3], b[pos + 4]>>
        = <<v.hi \div 256, v.hi % 256, v.lo \div 256, v.lo % 256>>

\* C26: pack emits no archive in which total_size, data_start, or a record's
\* offset or length differs from its true value: when a true value is
\* beyond 2^32-1 it returns an error and does not write the value modulo
\* 2^32.
C26_NoSilentWrap ==
    (op = "pack_of_lengths" /\ entries # <<>>) =>
        /\ result.tag \in {"Ok", "Err"}
        /\ result.tag = "Ok" =>
               LET b == result.val.table
                   n == Len(entries)
                   data_start == 16 + 9 * n + NameBytes(entries, n)
               IN  /\ FieldHolds(<<b[8], b[7], b[6], b[5]>>, 0, TrueEnd(entries, data_start, n))
                   /\ FieldHolds(b, 12, TrueEnd(entries, data_start, 0))
                   /\ \A i \in 1..n :
                          /\ FieldHolds(b, RecordPos(entries, i), TrueEnd(entries, data_start, i - 1))
                          /\ FieldHolds(b, RecordPos(entries, i) + 4, entries[i].len)

\* the calls that read an archive
ReadOps ==
    {"read_kind", "read_size", "read_len", "read_data_start", "read_entry_metadata_table",
     "read_secret_data", "get_bytes_via_table"}

\* what the call o with argument a returns on a buffer that nothing has
\* read before, t being the table handed to it
InIsolation(o, a, self, t) ==
    CASE o = "read_kind" -> read_kind(self)
      [] o = "read_size" -> read_size(self)
      [] o = "read_len" -> read_len(self)
      [] o = "read_data_start" -> read_data_start(self)
      [] o = "read_entry_metadata_table" -> read_entry_metadata_table(self)
      [] o = "read_secret_data" -> read_secret_data(self, t.map)
      [] o = "get_bytes_via_table" -> get_bytes_via_table(self, t.map, a)

C28_DecodingTerminates ==
    (op = "read_entry_metadata_table" /\ Len(archive.data) >= 16) =>
        /\ result.tag \in {"Ok", "Err"}
        /\ result.tag = "Ok" =>
               LET n == Cardinality(DOMAIN result.val)
                   entry_count == ReadU32BE(SubSeq(archive.data, 9, 12))
               IN  /\ Small(entry_count) => n <= AsUsize(entry_count)
                   /\ 16 + 9 * n <= Len(archive.data)

\* C29: the writer's pack_directory called with a kind that is neither BIG4
\* nor BIGF never panics and writes no byte of output: it returns an error,
\* UnsupportedKind once the walk has found a file to pack.
C29_UnsupportedKindRejected ==
    (op = "writer_pack_directory" /\ kind \notin Kinds) =>
        /\ result.tag = "Err"
        /\ ~output.some
        /\ (WriterCollect(tree, <<>>).tag = "Ok" /\ WriterCollect(tree, <<>>).val # <<>>) =>
               result.val.kind = "UnsupportedKind"

\* C30: unpack run with --names writes out exactly the entries of the table
\* whose names are among the names given, each with its bytes, and no other
\* entry; run with --all it writes out every entry of the table.
C30_SelectiveUnpack ==
    (op = "unpack" /\ result.tag = "Ok") =>
        LET wanted == IF arg.all THEN DOMAIN table.map ELSE DOMAIN table.map \cap arg.names
        IN  /\ DOMAIN output.data = {replace(n) : n \in wanted}
            /\ \A n \in wanted :
                   output.data[replace(n)] = get_bytes_via_table(archive, table.map, n).val
====
